---------------------------- MODULE Spec2Model ----------------------------
(***************************************************************************)
(* The dashboard client of public/js/app.js: the session watcher, the API  *)
(* key lifecycle (fetch, create, rotate), the usage and plan rendering and *)
(* the sandbox file selection, as a state machine over the page's DOM,     *)
(* local storage and the requests in flight.                               *)
(*                                                                         *)
(* Every handler of the script is one action.  An `await fetch(...)` ends  *)
(* the action that issues the request; the continuation after it is the    *)
(* action that resolves the request, with the server's answer drawn from   *)
(* a small set.  user.getIdToken() is folded into the request it           *)
(* authorises: its rejection is the outcome "neterr" of that request.      *)
(***************************************************************************)
EXTENDS Integers, Sequences, FiniteSets, Bags, TLC

VARIABLES
    currentUser,          \* firebase.auth().currentUser: an email, or NoUser
    dom,                  \* the elements the script reads and writes, by id
    localStorage,         \* receiptApiKey, emailForSignIn
    inflight,             \* bag of the requests awaiting their response
    toasts,               \* children of #toast-container, oldest first
    currentSelectedFile,  \* the sandbox's selected file, or NoFile
    reading,              \* bag of the FileReader reads awaiting their onload
    extractions,          \* history: extract requests sent since the page loaded
    locale,               \* the browser's locale, used by toLocaleString
    location              \* window.location.href: the page the browser shows

vars == <<currentUser, dom, localStorage, inflight, toasts,
          currentSelectedFile, reading, extractions, locale, location>>

---------------------------------------------------------------------------
(* Bounds of the model *)

\* requests and file reads that may await their callback at the same time
MaxInFlight == 2
\* extract requests one page sends
MaxExtractions == 2
\* toasts that may be in the container at the same time
MaxToasts == 1

---------------------------------------------------------------------------
(* Values *)

\* JavaScript's null / undefined / "" for a string, and undefined for a number
NoStr == ""
NoNum == -1
NoUser == NoStr

Users == {"ann@x.io", "bob@x.io"}

\* An API key in full, its masked display form, and no key at all.
FullKey(n) == <<"full", n>>
MaskedKey(n) == <<"masked", n>>
NoKey == <<"none", 0>>
KeyIds == {1, 2}
FullKeys == {FullKey(n) : n \in KeyIds}
MaskedKeys == {MaskedKey(n) : n \in KeyIds}
IsFull(k) == k[1] = "full"
IsMasked(k) == k[1] = "masked"

\* JavaScript truthiness of a number, a string and a key string
TruthyNum(n) == n # NoNum /\ n # 0
TruthyStr(s) == s # NoStr
TruthyKey(k) == k # NoKey

\* A file of an <input type=file>: its contents stand under its name.
File(name, size, type) == [name |-> name, size |-> size, type |-> type]
NoFile == File(NoStr, 0, NoStr)

\* window.location.href: the app's page, plain or as an e-mail sign-in link
\* opens it (with the link's callback markers in the query).
AppUrl == "/"
LinkUrl == "/?mode=signIn&oobCode"


---------------------------------------------------------------------------
(* Number.prototype.toLocaleString and the parse of performApiCall *)

Locales == {"en-US", "de-DE"}

\* The grouping separator of a locale's number format.
GroupSep(loc) == IF loc = "de-DE" THEN "." ELSE ","

\* The groups of three digits of n, most significant first.
RECURSIVE Groups(_)
Groups(n) == IF n < 1000 THEN <<n>> ELSE Append(Groups(n \div 1000), n % 1000)

\* A number's text: its digit groups and the separator written between them.
toLocaleString(n, loc) ==
    [groups |-> Groups(n), sep |-> IF n < 1000 THEN NoStr ELSE GroupSep(loc)]

\* The text of a literal such as '0'.
Literal(n) == [groups |-> <<n>>, sep |-> NoStr]

\* The number a text shows to its reader.
RECURSIVE Shown(_)
Shown(groups) ==
    IF Len(groups) = 1 THEN groups[1]
    ELSE Shown(SubSeq(groups, 1, Len(groups) - 1)) * 1000 + groups[Len(groups)]

---------------------------------------------------------------------------
(* Plans and the plan cards *)

PlanNames == {"free", "pro", "enterprise"}
PLAN_LEVELS == [free |-> 0, pro |-> 1, enterprise |-> 2]

\* PLAN_LEVELS[plan], undefined (NoNum) for a name that is no plan
PlanLevel(plan) == IF plan \in DOMAIN PLAN_LEVELS THEN PLAN_LEVELS[plan] ELSE NoNum

\* a < b in JavaScript: false when either side is undefined
JsLess(a, b) == a # NoNum /\ b # NoNum /\ a < b

NoAction == [fn |-> "none", arg |-> NoStr]

\* PlanCard with the comparison of the levels turned round; C7 fails for it.
PlanCardReversed(planName, currentPlan) ==
    IF planName = currentPlan
        THEN [label |-> "Current", action |-> NoAction]
    ELSE IF JsLess(PlanLevel(currentPlan), PlanLevel(planName))
        THEN [label |-> "Downgrade", action |-> [fn |-> "openPortal", arg |-> NoStr]]
    ELSE [label |-> "Upgrade", action |-> [fn |-> "upgradePlan", arg |-> planName]]

\* The badge or button one card gets in updatePlanCards' forEach.
PlanCard(planName, currentPlan) ==
    IF planName = currentPlan
        THEN [label |-> "Current", action |-> NoAction]
    ELSE IF JsLess(PlanLevel(planName), PlanLevel(currentPlan))
        THEN [label |-> "Downgrade", action |-> [fn |-> "openPortal", arg |-> NoStr]]
    ELSE [label |-> "Upgrade", action |-> [fn |-> "upgradePlan", arg |-> planName]]

\* The DOM d after updatePlanCards(plan).
updatePlanCards(d, plan) ==
    LET currentPlan == IF TruthyStr(plan) THEN plan ELSE "free"
        currentLevel == PlanLevel(currentPlan)
    IN  [d EXCEPT
            !.manageSubBtnHidden = ~JsLess(0, currentLevel),
            !.planCards = [p \in PlanNames |-> PlanCard(p, currentPlan)]]

---------------------------------------------------------------------------
(* The usage display *)

PlanLimits == [free |-> 50, pro |-> 5000, enterprise |-> 100000]

\* ResolveLimit with the plan's default ahead of the server's limit; C8 fails for it.
ResolveLimitPlanFirst(data, plan) ==
    IF plan \in DOMAIN PlanLimits /\ TruthyNum(PlanLimits[plan]) THEN PlanLimits[plan]
    ELSE IF TruthyNum(data.limit) THEN data.limit
    ELSE 50

\* data.limit || { free: 50, pro: 5000, enterprise: 100000 }[plan] || 50
ResolveLimit(data, plan) ==
    IF TruthyNum(data.limit) THEN data.limit
    ELSE IF plan \in DOMAIN PlanLimits /\ TruthyNum(PlanLimits[plan]) THEN PlanLimits[plan]
    ELSE 50

\* Percentage without Math.min; C9 fails for it.
PercentageUnclamped(used, limit) == [num |-> used * 100, den |-> limit]

\* Math.min((used / limit) * 100, 100) as the exact fraction num/den, den > 0
Percentage(used, limit) ==
    IF used * 100 >= 100 * limit
        THEN [num |-> 100, den |-> 1]
        ELSE [num |-> used * 100, den |-> limit]

\* percentage > 90
Above90(pct) == pct.num > 90 * pct.den

\* showMaskedKey without the write of input.value; C1 fails for it.
showMaskedKeyStyleOnly(d, data) ==
    [d EXCEPT
        !.apiKeyRevealedStyle = FALSE,
        !.copyApiKeyBtnHidden = TRUE,
        !.keyWarningMsgHidden = TRUE]

\* The DOM d after updateDashboardUI has shown the masked key.
showMaskedKey(d, data) ==
    [d EXCEPT
        !.apiKeyDisplay = data.masked_key,
        !.apiKeyRevealedStyle = FALSE,
        !.copyApiKeyBtnHidden = TRUE,
        !.keyWarningMsgHidden = TRUE]

\* data.plan || 'free' and data.requests_this_month || 0
PlanOf(data) == IF TruthyStr(data.plan) THEN data.plan ELSE "free"
UsedOf(data) == IF TruthyNum(data.requests_this_month) THEN data.requests_this_month ELSE 0

\* The DOM d after updateDashboardUI has shown the usage.
showUsage(d, data, loc) ==
    LET limit == ResolveLimit(data, PlanOf(data))
        percentage == Percentage(UsedOf(data), limit)
    IN  [d EXCEPT
            !.requestCount = toLocaleString(UsedOf(data), loc),
            !.requestsLimit = toLocaleString(limit, loc),
            !.usageBarWidth = percentage,
            !.usageBarRed = Above90(percentage)]

\* The DOM d after updateDashboardUI(data) in a browser of locale loc.
updateDashboardUI(d, data, loc) ==
    updatePlanCards(showUsage(showMaskedKey(d, data), data, loc), PlanOf(data))

\* The DOM d after revealNewKey(data); the caller stores data.key as well.
revealNewKey(d, data) ==
    [d EXCEPT
        !.apiKeyDisplay = data.key,
        !.apiKeyRevealedStyle = TRUE,
        !.copyApiKeyBtnHidden = FALSE,
        !.keyWarningMsgHidden = FALSE,
        !.requestCount = Literal(0),
        !.usageBarWidth = [num |-> 0, den |-> 1]]

\* revealNewKey without its localStorage.setItem; C2 fails for it.
storeNoKey(ls, data) == ls

\* localStorage.setItem('receiptApiKey', data.key) at the end of revealNewKey
storeNewKey(ls, data) == [ls EXCEPT !.receiptApiKey = data.key]

---------------------------------------------------------------------------
(* The page as index.html delivers it, before any script has run *)

InitialDom ==
    [ signInSectionHidden |-> TRUE,
      navLoggedOutHidden |-> TRUE,
      navLoggedInHidden |-> TRUE,
      authenticatedSectionHidden |-> TRUE,
      userEmail |-> NoStr,
      apiKeyDisplay |-> NoKey,
      apiKeyRevealedStyle |-> FALSE,
      copyApiKeyBtnHidden |-> TRUE,
      keyWarningMsgHidden |-> TRUE,
      requestCount |-> Literal(0),
      requestsLimit |-> Literal(50),
      usageBarWidth |-> [num |-> 0, den |-> 1],
      usageBarRed |-> FALSE,
      planCards |-> [p \in PlanNames |-> [label |-> NoStr, action |-> NoAction]],
      manageSubBtnHidden |-> TRUE,
      rotateModalHidden |-> TRUE,
      extractBtnDisabled |-> TRUE,
      dropContentHidden |-> FALSE,
      previewImage |-> [hidden |-> TRUE, src |-> NoStr],
      processingIndicatorHidden |-> TRUE,
      resultsAreaDimmed |-> FALSE,
      resultsArea |-> NoStr,
      focused |-> NoStr,
      emailSentMsgHidden |-> TRUE ]

InitialStorage == [receiptApiKey |-> NoKey, emailForSignIn |-> NoStr]

---------------------------------------------------------------------------
(* Requests and the answers of the server *)

\* The JSON body of a response; a field the body lacks is NoStr, NoNum or NoKey.
NoData ==
    [ masked_key |-> NoKey, key |-> NoKey, plan |-> NoStr,
      requests_this_month |-> NoNum, limit |-> NoNum, detail |-> NoStr,
      checkout_url |-> NoStr, url |-> NoStr, result |-> NoStr ]

KeyBody(masked, plan, used, limit) ==
    [NoData EXCEPT !.masked_key = masked, !.plan = plan,
                   !.requests_this_month = used, !.limit = limit]
NewKeyBody(k) == [NoData EXCEPT !.key = k]
ErrorBody == [NoData EXCEPT !.detail = "x"]

\* fetch() rejected (or getIdToken did): no response at all
NetErr == [kind |-> "neterr", status |-> 0, parsable |-> FALSE, data |-> NoData]
\* a response of the given status; response.json() rejects unless parsable
Http(status, data) == [kind |-> "http", status |-> status, parsable |-> TRUE, data |-> data]
Unparsable(status) == [kind |-> "http", status |-> status, parsable |-> FALSE, data |-> NoData]
NoResp == [kind |-> "none", status |-> 0, parsable |-> FALSE, data |-> NoData]

\* response.ok
Ok(r) == r.kind = "http" /\ r.status >= 200 /\ r.status <= 299
\* `await fetch(...)` or `await response.json()` threw
Threw(r) == r.kind = "neterr" \/ ~r.parsable

\* Every body GET /api/v1/key may carry beside its masked key.
PlanValues == {NoStr, "free", "pro", "enterprise", "other"}
UsedValues == {NoNum, 0, 49, 1234}
LimitValues == {NoNum, 0, 200}
AllKeyBodies ==
    { KeyBody(MaskedKey(1), p, u, l) : p \in PlanValues, u \in UsedValues, l \in LimitValues }

\* The bodies the session model answers a key fetch with.
KeyBodies ==
    { KeyBody(MaskedKey(1), "pro", 49, NoNum),
      KeyBody(MaskedKey(2), "pro", 1234, 200),
      KeyBody(MaskedKey(2), "free", 49, 0) }

KeyFetchOutcomes ==
    {NetErr, Unparsable(404), Unparsable(502), Http(200, NoData),
     Http(404, ErrorBody), Http(500, ErrorBody),
     Http(500, KeyBody(MaskedKey(1), "pro", 49, NoNum))}
    \cup {Http(200, b) : b \in KeyBodies}

NewKeyOutcomes ==
    {NetErr, Unparsable(502), Http(200, NoData), Http(500, ErrorBody)}
    \cup {Http(200, NewKeyBody(k)) : k \in FullKeys}

\* A request: its endpoint and what it carries (the signed-in email its
\* bearer token stands for, the plan, or the extract payload and its API key).
Request(endpoint, email, plan) ==
    [ endpoint |-> endpoint, email |-> email, plan |-> plan, file_data |-> NoStr,
      mime_type |-> NoStr, doc_type |-> NoStr, apiKey |-> NoKey ]

Pending(endpoint) == {q \in BagToSet(inflight) : q.endpoint = endpoint}
Issue(bag, q) == bag (+) SetToBag({q})
\* A response that cancels every other awaited request; C20 fails for it.
SettleAll(bag, q) == EmptyBag
Settle(bag, q) == bag (-) SetToBag({q})
HasRoom == BagCardinality(inflight) + BagCardinality(reading) < MaxInFlight

---------------------------------------------------------------------------
(* Toasts *)

\* The container after showToast(message, type).
showToast(ts, message, type) ==
    Append(ts, [message |-> message, type |-> type, fading |-> FALSE])

ToastRoom == Len(toasts) < MaxToasts

---------------------------------------------------------------------------
(* 3. Auth flow *)

\* The callback without the hiding of the sign-in section; C15 fails for it.
showRegionBoth(d, user) ==
    IF user # NoUser
        THEN [d EXCEPT !.userEmail = user,
                       !.navLoggedOutHidden = TRUE,
                       !.navLoggedInHidden = FALSE,
                       !.authenticatedSectionHidden = FALSE]
        ELSE [d EXCEPT !.signInSectionHidden = FALSE,
                       !.navLoggedOutHidden = FALSE,
                       !.navLoggedInHidden = TRUE,
                       !.authenticatedSectionHidden = TRUE]

\* The DOM d after the onAuthStateChanged callback has shown a region.
showRegion(d, user) ==
    IF user # NoUser
        THEN [d EXCEPT !.userEmail = user,
                       !.signInSectionHidden = TRUE,
                       !.navLoggedOutHidden = TRUE,
                       !.navLoggedInHidden = FALSE,
                       !.authenticatedSectionHidden = FALSE]
        ELSE [d EXCEPT !.signInSectionHidden = FALSE,
                       !.navLoggedOutHidden = FALSE,
                       !.navLoggedInHidden = TRUE,
                       !.authenticatedSectionHidden = TRUE]

\* A getOrCreateAPIKey that sends its fetch twice; C19 fails for it.
getOrCreateAPIKeyTwice(bag, user) ==
    Issue(Issue(bag, Request("key", user, NoStr)), Request("key", user, NoStr))

\* The requests in flight after getOrCreateAPIKey(user) has sent its fetch.
getOrCreateAPIKey(bag, user) == Issue(bag, Request("key", user, NoStr))

\* auth.onAuthStateChanged(callback): the identity provider reports `user`,
\* another user than before or, as on every page load without a session, none.
AuthStateChanged(user) ==
    /\ user # currentUser \/ user = NoUser
    /\ user # NoUser => HasRoom
    /\ currentUser' = user
    /\ dom' = showRegion(dom, user)
    /\ inflight' = IF user # NoUser THEN getOrCreateAPIKey(inflight, user) ELSE inflight
    /\ UNCHANGED <<localStorage, toasts, currentSelectedFile, reading, extractions, locale, location>>

\* auth.isSignInWithEmailLink(window.location.href)
isSignInWithEmailLink(href) == href = LinkUrl

\* What prompt('Please confirm your email for login:') returns: an address,
\* or nothing when the visitor cancels it.
PromptAnswers == {NoStr, "ann@x.io"}

\* The sign-ins awaited once the script has run its magic-link block on a page
\* at href: none, or the one of auth.signInWithEmailLink(email, href).
magicLinkReturn(ls, href, answer) ==
    IF isSignInWithEmailLink(href)
      THEN SetToBag({Request("signInWithEmailLink",
                             IF TruthyStr(ls.emailForSignIn) THEN ls.emailForSignIn ELSE answer,
                             NoStr)})
      ELSE EmptyBag

\* The provider completes a sign-in by link or rejects it (invalid or expired
\* link); it rejects one that was given no address.
MagicLinkOutcomes(q) == IF q.email = NoStr THEN {"rejected"} ELSE {"ok", "rejected"}

\* The magic-link block clearing the pending address and the location whatever
\* the outcome; C16 fails for it.
MagicLinkResolveAlways(q, outcome) ==
    /\ q \in Pending("signInWithEmailLink")
    /\ outcome \in MagicLinkOutcomes(q)
    /\ inflight' = Settle(inflight, q)
    /\ localStorage' = [localStorage EXCEPT !.emailForSignIn = NoStr]
    /\ location' = AppUrl
    /\ IF outcome = "ok"
         THEN UNCHANGED toasts
         ELSE /\ ToastRoom
              /\ toasts' = showToast(toasts, "e.message", "error")
    /\ UNCHANGED <<currentUser, dom, currentSelectedFile, reading, extractions, locale>>

\* The .then / .catch of auth.signInWithEmailLink(email, href) for request q.
MagicLinkResolve(q, outcome) ==
    /\ q \in Pending("signInWithEmailLink")
    /\ outcome \in MagicLinkOutcomes(q)
    /\ inflight' = Settle(inflight, q)
    /\ IF outcome = "ok"
         THEN /\ localStorage' = [localStorage EXCEPT !.emailForSignIn = NoStr]
              /\ location' = AppUrl
              /\ UNCHANGED toasts
         ELSE /\ ToastRoom
              /\ toasts' = showToast(toasts, "e.message", "error")
              /\ UNCHANGED <<localStorage, location>>
    /\ UNCHANGED <<currentUser, dom, currentSelectedFile, reading, extractions, locale>>

\* What the visitor typed into #emailInput.
EmailInputs == {NoStr} \cup Users

\* signInWithEmail() up to its await of auth.sendSignInLinkToEmail(email, ...).
SignInWithEmail(email) ==
    /\ email \in EmailInputs
    /\ IF ~TruthyStr(email)
         THEN /\ ToastRoom
              /\ toasts' = showToast(toasts, "Please enter email", "error")
              /\ UNCHANGED inflight
         ELSE /\ HasRoom
              /\ inflight' = Issue(inflight, Request("sendSignInLinkToEmail", email, NoStr))
              /\ UNCHANGED toasts
    /\ UNCHANGED <<currentUser, dom, localStorage, currentSelectedFile, reading,
                   extractions, locale, location>>

\* The provider sends the link or rejects the request.
SendLinkOutcomes == {"sent", "rejected"}

\* The rest of signInWithEmail() once sendSignInLinkToEmail has settled.
SendLinkResolve(q, outcome) ==
    /\ q \in Pending("sendSignInLinkToEmail")
    /\ outcome \in SendLinkOutcomes
    /\ ToastRoom
    /\ inflight' = Settle(inflight, q)
    /\ IF outcome = "sent"
         THEN /\ dom' = [dom EXCEPT !.emailSentMsgHidden = FALSE]
              /\ toasts' = showToast(toasts, "Magic Link Sent!", "success")
         ELSE /\ toasts' = showToast(toasts, "e.message", "error")
              /\ UNCHANGED dom
    /\ UNCHANGED <<currentUser, localStorage, currentSelectedFile, reading,
                   extractions, locale, location>>

\* The visitor follows the link of the mail in this browser: the page is
\* loaded at the link's address, with the browser's local storage as it is,
\* and the script runs from its top, its magic-link block included.
OpenLink ==
    /\ location' = LinkUrl
    /\ currentUser' = NoUser
    /\ dom' = InitialDom
    /\ \E answer \in PromptAnswers :
          inflight' = magicLinkReturn(localStorage, LinkUrl, answer)
    /\ toasts' = <<>>
    /\ currentSelectedFile' = NoFile
    /\ reading' = EmptyBag
    /\ extractions' = 0
    /\ UNCHANGED <<localStorage, locale>>

\* signOut(): the stored key is removed and the page is loaded anew, which
\* drops the DOM, the toasts and every continuation awaiting a response; the
\* script then runs from its top, its magic-link block included.
SignOut ==
    /\ currentUser' = NoUser
    /\ localStorage' = [localStorage EXCEPT !.receiptApiKey = NoKey]
    /\ dom' = InitialDom
    /\ \E answer \in PromptAnswers :
          inflight' = magicLinkReturn(localStorage', location, answer)
    /\ toasts' = <<>>
    /\ currentSelectedFile' = NoFile
    /\ reading' = EmptyBag
    /\ extractions' = 0
    /\ UNCHANGED <<locale, location>>

---------------------------------------------------------------------------
(* 4. API key and dashboard *)

\* A getOrCreateAPIKey that creates a key after every answer that is not ok;
\* C5 fails for it.
KeyFetchBranchCreateOnAnyFailure(r) ==
    IF Threw(r) THEN "caught"
    ELSE IF Ok(r) /\ TruthyKey(r.data.masked_key) THEN "update"
    ELSE IF ~Ok(r) THEN "create"
    ELSE "ignore"

\* What the continuation of getOrCreateAPIKey does with the answer r.
KeyFetchBranch(r) ==
    IF Threw(r) THEN "caught"
    ELSE IF Ok(r) /\ TruthyKey(r.data.masked_key) THEN "update"
    ELSE IF r.status = 404 THEN "create"
    ELSE "ignore"

\* createNewKey asking for another plan than 'free'; C3 fails for it.
createNewKeyPro(bag, email) == Issue(bag, Request("signup", email, "pro"))

\* The requests in flight after createNewKey(idToken, email) has sent its fetch.
createNewKey(bag, email) == Issue(bag, Request("signup", email, "free"))

\* getOrCreateAPIKey resumes with the answer r to its request q.
KeyFetchResolve(q, r) ==
    /\ q \in Pending("key")
    /\ inflight' = IF KeyFetchBranch(r) = "create"
                     THEN createNewKey(Settle(inflight, q), q.email)
                     ELSE Settle(inflight, q)
    /\ dom' = IF KeyFetchBranch(r) = "update"
                THEN updateDashboardUI(dom, r.data, locale) ELSE dom
    /\ UNCHANGED <<currentUser, localStorage, toasts, currentSelectedFile, reading, extractions, locale, location>>

\* What createNewKey and confirmRotate do with the answer r.
NewKeyBranch(r) ==
    IF Threw(r) THEN "caught"
    ELSE IF TruthyKey(r.data.key) THEN "reveal"
    ELSE "ignore"

\* createNewKey resumes with the answer r to its request q.
SignupResolve(q, r) ==
    /\ q \in Pending("signup")
    /\ inflight' = Settle(inflight, q)
    /\ IF NewKeyBranch(r) = "reveal"
         THEN /\ dom' = revealNewKey(dom, r.data)
              /\ localStorage' = storeNewKey(localStorage, r.data)
         ELSE UNCHANGED <<dom, localStorage>>
    /\ UNCHANGED <<currentUser, toasts, currentSelectedFile, reading, extractions, locale, location>>

---------------------------------------------------------------------------
(* 5. Plans and billing *)

CheckoutUrl == "https://pay.example/checkout"
PortalUrl == "https://pay.example/portal"
CheckoutBody == [NoData EXCEPT !.checkout_url = CheckoutUrl]
PortalBody == [NoData EXCEPT !.url = PortalUrl]

\* The script runs while the browser shows the app's page; assigning another
\* URL to window.location.href unloads it.
OnApp == location \in {AppUrl, LinkUrl}

CheckoutOutcomes ==
    {NetErr, Unparsable(502), Http(200, CheckoutBody), Http(200, NoData),
     Http(402, ErrorBody), Http(500, NoData), Http(500, CheckoutBody)}
PortalOutcomes ==
    {NetErr, Unparsable(502), Http(200, PortalBody), Http(200, NoData),
     Http(403, ErrorBody), Http(500, NoData), Http(500, PortalBody)}

\* The card of a plan carries a button that calls fn(arg).
HasButton(planName, fn, arg) == dom.planCards[planName].action = [fn |-> fn, arg |-> arg]

\* upgradePlan(plan), from the 'Upgrade' button of the plan's card, up to its fetch.
UpgradePlan(plan) ==
    /\ HasButton(plan, "upgradePlan", plan)
    /\ IF currentUser = NoUser
         THEN /\ ToastRoom
              /\ toasts' = showToast(toasts, "Please sign in first", "error")
              /\ UNCHANGED inflight
         ELSE /\ HasRoom
              /\ inflight' = Issue(inflight, Request("create-checkout", currentUser, plan))
              /\ UNCHANGED toasts
    /\ UNCHANGED <<currentUser, dom, localStorage, currentSelectedFile, reading,
                   extractions, locale, location>>

\* An upgradePlan that goes to checkout_url whatever the status; C18 fails for it.
UpgradeBranchAnyStatus(r) ==
    IF Threw(r) THEN "caught"
    ELSE IF TruthyStr(r.data.checkout_url) THEN "navigate"
    ELSE "toast"

\* What upgradePlan does with the answer r.
UpgradeBranch(r) ==
    IF Threw(r) THEN "caught"
    ELSE IF Ok(r) /\ TruthyStr(r.data.checkout_url) THEN "navigate"
    ELSE "toast"

\* upgradePlan resumes with the answer r to its request q.
UpgradeResolve(q, r) ==
    /\ q \in Pending("create-checkout")
    /\ inflight' = Settle(inflight, q)
    /\ CASE UpgradeBranch(r) = "navigate" ->
              /\ location' = r.data.checkout_url
              /\ UNCHANGED toasts
         [] UpgradeBranch(r) = "caught" ->
              /\ ToastRoom
              /\ toasts' = showToast(toasts, "e.message", "error")
              /\ UNCHANGED location
         [] OTHER ->
              /\ ToastRoom
              /\ toasts' = showToast(toasts,
                     IF TruthyStr(r.data.detail) THEN r.data.detail ELSE "Checkout failed",
                     "error")
              /\ UNCHANGED location
    /\ UNCHANGED <<currentUser, dom, localStorage, currentSelectedFile, reading,
                   extractions, locale>>

\* openPortal(), from a 'Downgrade' button, up to its fetch; with no user,
\* user.getIdToken() throws inside the try and the catch shows e.message.
OpenPortal ==
    /\ \E planName \in PlanNames : HasButton(planName, "openPortal", NoStr)
    /\ IF currentUser = NoUser
         THEN /\ ToastRoom
              /\ toasts' = showToast(toasts, "e.message", "error")
              /\ UNCHANGED inflight
         ELSE /\ HasRoom
              /\ inflight' = Issue(inflight, Request("create-portal", currentUser, NoStr))
              /\ UNCHANGED toasts
    /\ UNCHANGED <<currentUser, dom, localStorage, currentSelectedFile, reading,
                   extractions, locale, location>>

\* What openPortal does with the answer r.
PortalBranch(r) ==
    IF Threw(r) THEN "caught"
    ELSE IF TruthyStr(r.data.url) THEN "navigate"
    ELSE "toast"

\* openPortal resumes with the answer r to its request q.
PortalResolve(q, r) ==
    /\ q \in Pending("create-portal")
    /\ inflight' = Settle(inflight, q)
    /\ CASE PortalBranch(r) = "navigate" ->
              /\ location' = r.data.url
              /\ UNCHANGED toasts
         [] PortalBranch(r) = "caught" ->
              /\ ToastRoom
              /\ toasts' = showToast(toasts, "e.message", "error")
              /\ UNCHANGED location
         [] OTHER ->
              /\ ToastRoom
              /\ toasts' = showToast(toasts,
                     IF TruthyStr(r.data.detail) THEN r.data.detail ELSE "Error opening portal",
                     "error")
              /\ UNCHANGED location
    /\ UNCHANGED <<currentUser, dom, localStorage, currentSelectedFile, reading,
                   extractions, locale>>

---------------------------------------------------------------------------
(* 7. The rotate modal *)

\* The DOM d after rotateKey() / closeRotateModal().
rotateKey(d) == [d EXCEPT !.rotateModalHidden = FALSE]
closeRotateModal(d) == [d EXCEPT !.rotateModalHidden = TRUE]

\* A rotateKey that sends the regenerate-key request itself; C6 fails for it.
rotateKeySendsRequest(bag) == Issue(bag, Request("regenerate-key", currentUser, NoStr))

\* The requests in flight after rotateKey() / closeRotateModal(): the same.
rotateKeyRequests(bag) == bag
closeRotateModalRequests(bag) == bag

RotateKey ==
    /\ dom' = rotateKey(dom)
    /\ inflight' = rotateKeyRequests(inflight)
    /\ UNCHANGED <<currentUser, localStorage, toasts, currentSelectedFile, reading, extractions, locale, location>>

CloseRotateModal ==
    /\ dom' = closeRotateModal(dom)
    /\ inflight' = closeRotateModalRequests(inflight)
    /\ UNCHANGED <<currentUser, localStorage, toasts, currentSelectedFile, reading, extractions, locale, location>>

\* The modal's confirm button can be pressed while the modal is shown.
ConfirmButtonShown == ~dom.rotateModalHidden

\* confirmRotate() up to its fetch; with no user, user.getIdToken() throws
\* inside the try and the catch shows e.message.
ConfirmRotate ==
    /\ ConfirmButtonShown
    /\ dom' = closeRotateModal(dom)
    /\ IF currentUser # NoUser
         THEN /\ HasRoom
              /\ inflight' = Issue(inflight, Request("regenerate-key", currentUser, NoStr))
              /\ UNCHANGED toasts
         ELSE /\ ToastRoom
              /\ toasts' = showToast(toasts, "e.message", "error")
              /\ UNCHANGED inflight
    /\ UNCHANGED <<currentUser, localStorage, currentSelectedFile, reading, extractions, locale, location>>

\* confirmRotate resumes with the answer r to its request q.
RegenerateResolve(q, r) ==
    /\ q \in Pending("regenerate-key")
    /\ NewKeyBranch(r) # "ignore" => ToastRoom
    /\ inflight' = Settle(inflight, q)
    /\ CASE NewKeyBranch(r) = "reveal" ->
              /\ dom' = revealNewKey(dom, r.data)
              /\ localStorage' = storeNewKey(localStorage, r.data)
              /\ toasts' = showToast(toasts, "Key Rotated Successfully", "success")
         [] NewKeyBranch(r) = "caught" ->
              /\ toasts' = showToast(toasts, "e.message", "error")
              /\ UNCHANGED <<dom, localStorage>>
         [] OTHER -> UNCHANGED <<dom, localStorage, toasts>>
    /\ UNCHANGED <<currentUser, currentSelectedFile, reading, extractions, locale, location>>

\* The timers of showToast: a toast fades 3500 ms after it was shown and is
\* removed 300 ms after it began to fade, so toasts fade and leave oldest first.
ToastFade ==
    /\ \E i \in 1..Len(toasts) :
          /\ ~toasts[i].fading
          /\ \A j \in 1..(i - 1) : toasts[j].fading
          /\ toasts' = [toasts EXCEPT ![i].fading = TRUE]
    /\ UNCHANGED <<currentUser, dom, localStorage, inflight, currentSelectedFile, reading, extractions, locale, location>>

\* A removal that does not wait for the fade; C21 fails for it.
ToastRemoveUnfaded ==
    /\ Len(toasts) > 0
    /\ toasts' = Tail(toasts)
    /\ UNCHANGED <<currentUser, dom, localStorage, inflight, currentSelectedFile, reading, extractions, locale, location>>

ToastRemove ==
    /\ Len(toasts) > 0
    /\ toasts[1].fading
    /\ toasts' = Tail(toasts)
    /\ UNCHANGED <<currentUser, dom, localStorage, inflight, currentSelectedFile, reading, extractions, locale, location>>

---------------------------------------------------------------------------
(* 6. Sandbox workflow *)

MAX_FILE_BYTES == 10 * 1024 * 1024

\* The files a visitor may pick: within, exactly at and one byte over the ceiling.
Files ==
    { File("small.png", 1024, "image/png"),
      File("exact.pdf", MAX_FILE_BYTES, "application/pdf"),
      File("over.png", MAX_FILE_BYTES + 1, "image/png") }

\* The size check with >= for >; C10 fails for it.
FileTooLargeInclusive(file) == file.size >= MAX_FILE_BYTES

\* file.size > 10 * 1024 * 1024
FileTooLarge(file) == file.size > MAX_FILE_BYTES

Read(purpose, file, docType, key) ==
    [purpose |-> purpose, file |-> file, docType |-> docType, key |-> key]
Reading(purpose) == {rd \in BagToSet(reading) : rd.purpose = purpose}

\* handleFileSelection(e) with e.target.files[0] = file (with no file chosen
\* the handler returns at once and nothing changes).
HandleFileSelection(file) ==
    /\ file \in Files
    /\ IF FileTooLarge(file)
         THEN /\ ToastRoom
              /\ toasts' = showToast(toasts, "File too large. Max 10MB.", "error")
              /\ UNCHANGED <<currentSelectedFile, dom, reading>>
         ELSE /\ HasRoom
              /\ currentSelectedFile' = file
              /\ dom' = [dom EXCEPT !.extractBtnDisabled = FALSE]
              /\ reading' = Issue(reading, Read("preview", file, NoStr, NoKey))
              /\ UNCHANGED toasts
    /\ UNCHANGED <<currentUser, localStorage, inflight, extractions, locale, location>>

\* reader.onload of handleFileSelection: the preview is shown.
PreviewLoaded(rd) ==
    /\ rd \in Reading("preview")
    /\ reading' = Settle(reading, rd)
    /\ dom' = [dom EXCEPT
          !.dropContentHidden = TRUE,
          !.previewImage = [hidden |-> FALSE,
                            src |-> IF rd.file.type = "application/pdf"
                                      THEN "pdf-icon" ELSE rd.file.name]]
    /\ UNCHANGED <<currentUser, localStorage, inflight, toasts,
                   currentSelectedFile, extractions, locale, location>>

\* What the visitor typed into #testApiKeyInput: a key, in full or as the
\* dashboard shows it, or nothing, with or without blanks around it.
Credential(core, padded) == [core |-> core, padded |-> padded]
Credentials ==
    { Credential(k, b) : k \in {NoKey, FullKey(1), MaskedKey(1)}, b \in BOOLEAN }
trim(cred) == cred.core
\* key.includes('....'), the four bullets of a masked key
IncludesBullets(key) == IsMasked(key)

\* The credential check without key.includes('....'); C11 fails for it.
CredentialRejectedWhenEmpty(key) == ~TruthyKey(key)

\* !key || key.includes('....')
CredentialRejected(key) == ~TruthyKey(key) \/ IncludesBullets(key)

DocTypes == {NoStr, "receipt"}

\* A disabled button dispatches no click.
ExtractButtonEnabled == ~dom.extractBtnDisabled

\* triggerExtraction() up to reader.readAsDataURL(currentSelectedFile).
TriggerExtraction(cred, docType) ==
    /\ ExtractButtonEnabled
    /\ LET key == trim(cred)
       IN  IF currentSelectedFile = NoFile
             THEN /\ ToastRoom
                  /\ toasts' = showToast(toasts, "Select a file first.", "error")
                  /\ UNCHANGED <<dom, reading>>
           ELSE IF CredentialRejected(key)
             THEN /\ ToastRoom
                  /\ toasts' = showToast(toasts, "Please paste your REAL API Key.", "error")
                  /\ dom' = [dom EXCEPT !.focused = "testApiKeyInput"]
                  /\ UNCHANGED reading
           ELSE /\ HasRoom
                /\ reading' = Issue(reading, Read("extract", currentSelectedFile, docType, key))
                /\ UNCHANGED <<dom, toasts>>
    /\ UNCHANGED <<currentUser, localStorage, inflight, currentSelectedFile,
                   extractions, locale, location>>

ExtractRequest(base64, mime, docType, key) ==
    [ Request("extract", NoStr, NoStr) EXCEPT
        !.file_data = base64, !.mime_type = mime, !.doc_type = docType, !.apiKey = key ]

\* reader.onload of triggerExtraction: performApiCall(...) up to its fetch.
ExtractReadLoaded(rd) ==
    /\ rd \in Reading("extract")
    /\ extractions < MaxExtractions
    /\ reading' = Settle(reading, rd)
    /\ dom' = [dom EXCEPT !.processingIndicatorHidden = FALSE,
                          !.resultsAreaDimmed = TRUE,
                          !.extractBtnDisabled = TRUE]
    /\ inflight' = Issue(inflight,
          ExtractRequest(rd.file.name, currentSelectedFile.type, rd.docType, rd.key))
    /\ extractions' = extractions + 1
    /\ UNCHANGED <<currentUser, localStorage, toasts, currentSelectedFile, locale, location>>

ResultBody == [NoData EXCEPT !.result = "fields"]
ExtractOutcomes ==
    {NetErr, Unparsable(200), Unparsable(502),
     Http(200, ResultBody), Http(401, ErrorBody), Http(500, NoData)}

\* parseInt(countEl.textContent.replace(/,/g, '')) || 0
parseCount(text) ==
    IF text.sep = "," \/ text.sep = NoStr THEN Shown(text.groups) ELSE text.groups[1]

\* resultsArea.textContent after the answer r
ResultText(r) ==
    IF Threw(r) THEN "Error: e.message"
    ELSE IF TruthyStr(r.data.detail) THEN "{detail}"
    ELSE IF TruthyStr(r.data.result) THEN "{result}"
    ELSE "{}"

\* performApiCall without its finally block; C14 fails for it.
ExtractResolveNoFinally(q, r) ==
    /\ q \in Pending("extract")
    /\ ToastRoom
    /\ inflight' = Settle(inflight, q)
    /\ toasts' =
          IF Threw(r) THEN showToast(toasts, "Network Error", "error")
          ELSE IF Ok(r) THEN showToast(toasts, "Extraction Successful!", "success")
          ELSE showToast(toasts,
                   IF TruthyStr(r.data.detail) THEN r.data.detail ELSE "Extraction Failed",
                   "error")
    /\ dom' = [dom EXCEPT
          !.requestCount = IF ~Threw(r) /\ Ok(r)
                             THEN toLocaleString(parseCount(@) + 1, locale) ELSE @,
          !.resultsArea = ResultText(r)]
    /\ UNCHANGED <<currentUser, localStorage, currentSelectedFile, reading,
                   extractions, locale, location>>

\* performApiCall resumes with the answer r to its request q.
ExtractResolve(q, r) ==
    /\ q \in Pending("extract")
    /\ ToastRoom
    /\ inflight' = Settle(inflight, q)
    /\ toasts' =
          IF Threw(r) THEN showToast(toasts, "Network Error", "error")
          ELSE IF Ok(r) THEN showToast(toasts, "Extraction Successful!", "success")
          ELSE showToast(toasts,
                   IF TruthyStr(r.data.detail) THEN r.data.detail ELSE "Extraction Failed",
                   "error")
    /\ dom' = [dom EXCEPT
          !.requestCount = IF ~Threw(r) /\ Ok(r)
                             THEN toLocaleString(parseCount(@) + 1, locale) ELSE @,
          !.resultsArea = ResultText(r),
          !.processingIndicatorHidden = TRUE,
          !.resultsAreaDimmed = FALSE,
          !.extractBtnDisabled = FALSE]
    /\ UNCHANGED <<currentUser, localStorage, currentSelectedFile, reading,
                   extractions, locale, location>>

---------------------------------------------------------------------------
(* The page *)

\* A freshly loaded page.  The session and key lifecycle never reads a number
\* back from its text, so its behaviours are the same in every locale but for
\* the separator shown; they are explored in one.
Init ==
    /\ currentUser = NoUser
    /\ dom = InitialDom
    /\ localStorage = InitialStorage
    /\ inflight = EmptyBag
    /\ toasts = <<>>
    /\ currentSelectedFile = NoFile
    /\ reading = EmptyBag
    /\ extractions = 0
    /\ locale = "en-US"
    /\ location = AppUrl

Next ==
    \/ \E user \in Users \cup {NoUser} : AuthStateChanged(user)
    \/ SignOut
    \/ \E q \in BagToSet(inflight), r \in KeyFetchOutcomes : KeyFetchResolve(q, r)
    \/ \E q \in BagToSet(inflight), r \in NewKeyOutcomes : SignupResolve(q, r)
    \/ RotateKey
    \/ CloseRotateModal
    \/ ConfirmRotate
    \/ \E q \in BagToSet(inflight), r \in NewKeyOutcomes : RegenerateResolve(q, r)
    \/ ToastFade
    \/ ToastRemove

Spec == Init /\ [][Next]_vars

\* The key loads of one user, with every body GET /api/v1/key may answer with.
DashboardOutcomes == {NetErr, Http(500, ErrorBody)} \cup {Http(200, b) : b \in AllKeyBodies}

NextDashboard ==
    \/ \E user \in {"ann@x.io", NoUser} : AuthStateChanged(user)
    \/ \E q \in BagToSet(inflight), r \in DashboardOutcomes : KeyFetchResolve(q, r)

SpecDashboard == Init /\ [][NextDashboard]_vars

\* The page opened by an e-mail sign-in link.  The pending address is an entry
\* of the origin's local storage, which outlives the page: the script reads it
\* and removes it, whoever wrote it.
LinkKeyOutcomes ==
    {NetErr, Http(404, ErrorBody), Http(200, KeyBody(MaskedKey(1), "pro", 49, NoNum))}

InitMagicLink ==
    /\ currentUser = NoUser
    /\ dom = InitialDom
    /\ localStorage \in {InitialStorage, [InitialStorage EXCEPT !.emailForSignIn = "ann@x.io"]}
    /\ location = LinkUrl
    /\ inflight \in {magicLinkReturn(localStorage, location, answer) : answer \in PromptAnswers}
    /\ toasts = <<>>
    /\ currentSelectedFile = NoFile
    /\ reading = EmptyBag
    /\ extractions = 0
    /\ locale = "en-US"

NextMagicLink ==
    \/ \E q \in BagToSet(inflight), outcome \in {"ok", "rejected"} : MagicLinkResolve(q, outcome)
    \/ \E user \in {"ann@x.io", NoUser} : AuthStateChanged(user)
    \/ \E q \in BagToSet(inflight), r \in LinkKeyOutcomes : KeyFetchResolve(q, r)
    \/ \E q \in BagToSet(inflight), r \in NewKeyOutcomes : SignupResolve(q, r)
    \/ SignOut
    \/ ToastFade
    \/ ToastRemove

SpecMagicLink == InitMagicLink /\ [][NextMagicLink]_vars

\* Signing in by mail from a fresh page: the request for a link, the link
\* followed once one has been sent, and the sign-in it leads to.
NextSignIn ==
    \/ \E email \in EmailInputs : SignInWithEmail(email)
    \/ \E q \in BagToSet(inflight), outcome \in SendLinkOutcomes : SendLinkResolve(q, outcome)
    \/ ~dom.emailSentMsgHidden /\ OpenLink
    \/ \E q \in BagToSet(inflight), outcome \in {"ok", "rejected"} : MagicLinkResolve(q, outcome)
    \/ \E user \in {"ann@x.io", NoUser} : AuthStateChanged(user)
    \/ \E q \in BagToSet(inflight), r \in LinkKeyOutcomes : KeyFetchResolve(q, r)
    \/ \E q \in BagToSet(inflight), r \in NewKeyOutcomes : SignupResolve(q, r)
    \/ ToastFade
    \/ ToastRemove

SpecSignIn == Init /\ [][NextSignIn]_vars

\* The billing buttons of one user's dashboard.
BillingKeyOutcomes ==
    {NetErr} \cup {Http(200, KeyBody(MaskedKey(1), p, 49, NoNum)) : p \in PlanNames}

NextBilling ==
    \/ OnApp /\ \E user \in {"ann@x.io", NoUser} : AuthStateChanged(user)
    \/ OnApp /\ \E q \in BagToSet(inflight), r \in BillingKeyOutcomes : KeyFetchResolve(q, r)
    \/ OnApp /\ \E plan \in PlanNames : UpgradePlan(plan)
    \/ OnApp /\ \E q \in BagToSet(inflight), r \in CheckoutOutcomes : UpgradeResolve(q, r)
    \/ OnApp /\ OpenPortal
    \/ OnApp /\ \E q \in BagToSet(inflight), r \in PortalOutcomes : PortalResolve(q, r)
    \/ OnApp /\ ToastFade
    \/ OnApp /\ ToastRemove

SpecBilling == Init /\ [][NextBilling]_vars

\* Every handler of the page together, for one user, one file and one answer
\* of each kind per endpoint.
PageKeyOutcomes ==
    {NetErr, Http(404, ErrorBody), Http(200, KeyBody(MaskedKey(1), "pro", 49, NoNum))}
PageNewKeyOutcomes == {NetErr, Http(500, ErrorBody), Http(200, NewKeyBody(FullKey(1)))}
PageCheckoutOutcomes == {NetErr, Http(402, ErrorBody), Http(500, NoData), Http(200, CheckoutBody)}
PagePortalOutcomes == {NetErr, Http(403, ErrorBody), Http(500, NoData), Http(200, PortalBody)}
PageExtractOutcomes == {NetErr, Http(401, ErrorBody), Http(500, NoData), Http(200, ResultBody)}
PageFile == File("small.png", 1024, "image/png")
PageCredential == Credential(FullKey(1), FALSE)

NextPage ==
    \/ OnApp /\ \E user \in {"ann@x.io", NoUser} : AuthStateChanged(user)
    \/ OnApp /\ SignOut
    \/ OnApp /\ \E q \in BagToSet(inflight), r \in PageKeyOutcomes : KeyFetchResolve(q, r)
    \/ OnApp /\ \E q \in BagToSet(inflight), r \in PageNewKeyOutcomes : SignupResolve(q, r)
    \/ OnApp /\ RotateKey
    \/ OnApp /\ CloseRotateModal
    \/ OnApp /\ ConfirmRotate
    \/ OnApp /\ \E q \in BagToSet(inflight), r \in PageNewKeyOutcomes : RegenerateResolve(q, r)
    \/ OnApp /\ \E plan \in PlanNames : UpgradePlan(plan)
    \/ OnApp /\ \E q \in BagToSet(inflight), r \in PageCheckoutOutcomes : UpgradeResolve(q, r)
    \/ OnApp /\ OpenPortal
    \/ OnApp /\ \E q \in BagToSet(inflight), r \in PagePortalOutcomes : PortalResolve(q, r)
    \/ OnApp /\ HandleFileSelection(PageFile)
    \/ OnApp /\ \E rd \in BagToSet(reading) : PreviewLoaded(rd)
    \/ OnApp /\ TriggerExtraction(PageCredential, "receipt")
    \/ OnApp /\ \E rd \in BagToSet(reading) : ExtractReadLoaded(rd)
    \/ OnApp /\ \E q \in BagToSet(inflight), r \in PageExtractOutcomes : ExtractResolve(q, r)
    \/ OnApp /\ ToastFade
    \/ OnApp /\ ToastRemove

SpecPage == Init /\ [][NextPage]_vars

\* The toasts of the sandbox's input errors and their timers.  A timer that
\* setTimeout has set fires while the page lives, so the fade and the removal
\* are taken once they are due.
RefusedCredentials == {Credential(k, b) : k \in {NoKey, MaskedKey(1)}, b \in BOOLEAN}

NextToasts ==
    \/ \E file \in Files : HandleFileSelection(file)
    \/ \E rd \in BagToSet(reading) : PreviewLoaded(rd)
    \/ \E cred \in RefusedCredentials, docType \in DocTypes : TriggerExtraction(cred, docType)
    \/ ToastFade
    \/ ToastRemove

SpecToasts ==
    Init /\ [][NextToasts]_vars /\ WF_vars(ToastFade) /\ WF_vars(ToastRemove)

\* The key load that filled the dashboard before the sandbox is used.
SandboxKeyBody == KeyBody(MaskedKey(1), "pro", 1234, NoNum)

\* The sandbox runner on a page whose dashboard a key load may have filled.
InitSandbox ==
    /\ currentUser = NoUser
    /\ locale \in Locales
    /\ dom \in {InitialDom, updateDashboardUI(InitialDom, SandboxKeyBody, locale)}
    /\ localStorage = InitialStorage
    /\ inflight = EmptyBag
    /\ toasts = <<>>
    /\ currentSelectedFile = NoFile
    /\ reading = EmptyBag
    /\ extractions = 0
    /\ location = AppUrl

NextSandbox ==
    \/ \E file \in Files : HandleFileSelection(file)
    \/ \E rd \in BagToSet(reading) : PreviewLoaded(rd)
    \/ \E cred \in Credentials, docType \in DocTypes : TriggerExtraction(cred, docType)
    \/ \E rd \in BagToSet(reading) : ExtractReadLoaded(rd)
    \/ \E q \in BagToSet(inflight), r \in ExtractOutcomes : ExtractResolve(q, r)
    \/ ToastFade
    \/ ToastRemove

SpecSandbox == InitSandbox /\ [][NextSandbox]_vars

---------------------------------------------------------------------------
(* Steps the claims speak of *)

\* Some createNewKey or confirmRotate continuation resolves with the key k.
RevealStep(k) ==
    \E q \in BagToSet(inflight) :
        \/ SignupResolve(q, Http(200, NewKeyBody(k)))
        \/ RegenerateResolve(q, Http(200, NewKeyBody(k)))

\* getOrCreateAPIKey resolves with a 2xx answer that carries the body b.
KeyLoadStep(b) == \E q \in BagToSet(inflight) : KeyFetchResolve(q, Http(200, b))

Signups(bag) == BagCardinality([q \in {x \in BagToSet(bag) : x.endpoint = "signup"} |-> bag[q]])
Regenerates(bag) ==
    BagCardinality([q \in {x \in BagToSet(bag) : x.endpoint = "regenerate-key"} |-> bag[q]])

---------------------------------------------------------------------------
(* C1..C10 *)

\* C1: when createNewKey or confirmRotate resolves with a key, the API-key
\* display shows that full key; when a getOrCreateAPIKey resolves with a masked
\* key, the display shows the masked key, which is no full key and so none of
\* the keys revealed before, whatever ran in between.
C1_KeyRevealInvariant ==
    [][ /\ \A k \in FullKeys : RevealStep(k) => dom'.apiKeyDisplay = k
        /\ \A b \in KeyBodies : KeyLoadStep(b) =>
              /\ dom'.apiKeyDisplay = b.masked_key
              /\ dom'.apiKeyDisplay \notin FullKeys
              /\ dom'.apiKeyDisplay # localStorage.receiptApiKey ]_vars

\* C1 witness: a key was revealed (its copy is stored) and a later key load
\* has put the masked form of that key into the display.
C1_Witness ==
    \E n \in KeyIds :
        dom.apiKeyDisplay = MaskedKey(n) /\ localStorage.receiptApiKey = FullKey(n)

\* C2 as stated: once a key load has resolved with the masked form, the client
\* holds the full key neither in the display nor in local storage.
C2_Original ==
    [][ \A b \in KeyBodies : KeyLoadStep(b) =>
            /\ ~IsFull(dom'.apiKeyDisplay)
            /\ ~IsFull(localStorage'.receiptApiKey) ]_vars

\* C2 amended: a key load that resolves with the masked form takes the full
\* key out of the display and leaves local storage as it was; a full key in
\* the display is the one stored; and the stored key changes only when a
\* creation or rotation stores the key it reveals or when signOut removes it.
C2_Amended ==
    [][ /\ \A b \in KeyBodies : KeyLoadStep(b) =>
              ~IsFull(dom'.apiKeyDisplay) /\ localStorage' = localStorage
        /\ IsFull(dom'.apiKeyDisplay) => localStorage'.receiptApiKey = dom'.apiKeyDisplay
        /\ localStorage'.receiptApiKey # localStorage.receiptApiKey =>
              \/ \E k \in FullKeys : RevealStep(k) /\ localStorage'.receiptApiKey = k
              \/ SignOut /\ localStorage'.receiptApiKey = NoKey ]_vars

\* C2 witness: after a creation or rotation, a key load has masked the display
\* and the full key is still in local storage.
C2_Witness ==
    /\ IsMasked(dom.apiKeyDisplay)
    /\ dom.copyApiKeyBtnHidden
    /\ IsFull(localStorage.receiptApiKey)
    /\ inflight = EmptyBag

\* C3 as stated: whenever the key fetch returns a 404 response, exactly one
\* signup request (plan 'free', the session's email) is issued.
C3_Original ==
    [][ \A q \in BagToSet(inflight), r \in KeyFetchOutcomes :
            KeyFetchResolve(q, r) /\ r.kind = "http" /\ r.status = 404 =>
                inflight' = Issue(Settle(inflight, q), Request("signup", q.email, "free")) ]_vars

\* C3 amended: when the key fetch returns a 404 response whose body parses as
\* JSON, exactly one signup request (plan 'free', the session's email) is
\* issued; after every other outcome, a 404 with an unparsable body included,
\* none is, and no other step issues a signup request.
C3_Amended ==
    [][ /\ \A q \in BagToSet(inflight), r \in KeyFetchOutcomes : KeyFetchResolve(q, r) =>
              IF r.kind = "http" /\ r.status = 404 /\ r.parsable
                THEN inflight' = Issue(Settle(inflight, q), Request("signup", q.email, "free"))
                ELSE inflight' = Settle(inflight, q)
        /\ Signups(inflight') > Signups(inflight) =>
              \E q \in Pending("key") :
                  /\ q.email \in Users
                  /\ inflight' = Issue(Settle(inflight, q), Request("signup", q.email, "free")) ]_vars

\* C3 witness: a signup request for a signed-in email with plan 'free' is in flight.
C3_Witness ==
    \E q \in Pending("signup") : q.plan = "free" /\ q.email \in Users

\* C4 as stated: when the signup that follows a 404 key fetch resolves with a
\* key, the key is shown and stored and the usage reads 0 of 50 with the bar at 0%.
C4_Claim ==
    [][ \A k \in FullKeys :
            (\E q \in BagToSet(inflight) : SignupResolve(q, Http(200, NewKeyBody(k)))) =>
                /\ dom'.apiKeyDisplay = k
                /\ localStorage'.receiptApiKey = k
                /\ dom'.requestCount = Literal(0)
                /\ dom'.requestsLimit = Literal(50)
                /\ dom'.usageBarWidth = [num |-> 0, den |-> 1] ]_vars

\* What C5 calls a failure of the key fetch other than not-found.
FailsOtherThanNotFound(r) ==
    \/ r.kind = "neterr"
    \/ ~r.parsable
    \/ ~Ok(r) /\ r.status # 404
    \/ Ok(r) /\ r.data.masked_key = NoKey

\* C5: when the key fetch fails in any way other than not-found, no request is
\* issued and the DOM (key display, usage, plan cards) and local storage stay
\* as they were.
C5_NoDestructiveFallback ==
    [][ \A q \in BagToSet(inflight), r \in KeyFetchOutcomes :
            KeyFetchResolve(q, r) /\ FailsOtherThanNotFound(r) =>
                /\ inflight' = Settle(inflight, q)
                /\ dom' = dom
                /\ localStorage' = localStorage ]_vars

\* C5 witness: a user is signed in, the key fetch has resolved and nothing is
\* in flight, and the dashboard is as the page delivered it.
C5_Witness ==
    /\ ~dom.authenticatedSectionHidden
    /\ inflight = EmptyBag
    /\ dom.apiKeyDisplay = NoKey
    /\ dom.planCards = InitialDom.planCards
    /\ localStorage = InitialStorage

\* C6: a regenerate-key request is sent only by a step that finds the prompt
\* open and closes it (confirmRotate after rotateKey); rotateKey and
\* closeRotateModal send nothing and leave the displayed and the stored key.
C6_TwoStepRotate ==
    [][ /\ Regenerates(inflight') > Regenerates(inflight) =>
              /\ ~dom.rotateModalHidden
              /\ dom'.rotateModalHidden
              /\ inflight' = Issue(inflight, Request("regenerate-key", currentUser, NoStr))
        /\ RotateKey \/ CloseRotateModal =>
              /\ inflight' = inflight
              /\ dom'.apiKeyDisplay = dom.apiKeyDisplay
              /\ localStorage' = localStorage ]_vars

\* C6 witness: the prompt was opened and confirmed: it is closed again and the
\* regenerate-key request is in flight.
C6_Witness ==
    dom.rotateModalHidden /\ Pending("regenerate-key") # {}

\* The order free < pro < enterprise of the plans.
PlanOrder(p) == CASE p = "free" -> 1 [] p = "pro" -> 2 [] p = "enterprise" -> 3

\* The cards as C7 wants them for the current plan p.
CardsAsClaimed(cards, p) ==
    /\ Cardinality({c \in PlanNames : cards[c].label = "Current"}) = 1
    /\ cards[p] = [label |-> "Current", action |-> NoAction]
    /\ \A c \in PlanNames :
          /\ PlanOrder(c) < PlanOrder(p) =>
                cards[c] = [label |-> "Downgrade", action |-> [fn |-> "openPortal", arg |-> NoStr]]
          /\ PlanOrder(c) > PlanOrder(p) =>
                cards[c] = [label |-> "Upgrade", action |-> [fn |-> "upgradePlan", arg |-> c]]

\* C7: for every current plan p of free, pro, enterprise, the cards rendered
\* by updatePlanCards(p) show exactly one 'Current' (p's, without a button),
\* 'Downgrade' with openPortal on every lower card and 'Upgrade' with
\* upgradePlan of that tier on every higher one.
C7_PlanCards ==
    [][ \A b \in AllKeyBodies :
            KeyLoadStep(b) /\ b.plan \in PlanNames => CardsAsClaimed(dom'.planCards, b.plan) ]_vars

\* C7 witness: the cards of a 'pro' user: free to downgrade, enterprise to upgrade.
C7_Witness ==
    /\ dom.planCards["pro"].label = "Current"
    /\ dom.planCards["free"].label = "Downgrade"
    /\ dom.planCards["enterprise"].action = [fn |-> "upgradePlan", arg |-> "enterprise"]

\* The default limit of a plan, 50 for a plan that is absent or unknown.
ClaimedDefault(plan) ==
    CASE plan = "pro" -> 5000 [] plan = "enterprise" -> 100000 [] OTHER -> 50

\* C8 as stated: the limit shown is the server's whenever the server supplies
\* one, else the default of the reported plan, else 50.
C8_Original ==
    [][ \A b \in AllKeyBodies : KeyLoadStep(b) =>
            dom'.requestsLimit =
                toLocaleString(IF b.limit # NoNum THEN b.limit ELSE ClaimedDefault(b.plan),
                               locale) ]_vars

\* C8 amended: the limit shown is the server's whenever the server supplies a
\* limit other than 0, else (limit absent or 0) the default of the reported
\* plan (free 50, pro 5000, enterprise 100000), else, the plan absent or
\* unknown as well, 50.
C8_Amended ==
    [][ \A b \in AllKeyBodies : KeyLoadStep(b) =>
            dom'.requestsLimit =
                toLocaleString(IF b.limit # NoNum /\ b.limit # 0
                                 THEN b.limit ELSE ClaimedDefault(b.plan),
                               locale) ]_vars

\* C8 witness: with no limit from the server the default of 'pro' is shown.
C8_Witness ==
    dom.planCards["pro"].label = "Current" /\ Shown(dom.requestsLimit.groups) = 5000

\* C9: the width updateDashboardUI gives the usage bar lies in [0, 100] percent
\* and is 100 percent whenever the count it shows has reached the limit it shows.
C9_PercentageClamped ==
    [][ \A b \in AllKeyBodies : KeyLoadStep(b) =>
            LET pct == dom'.usageBarWidth
                used == Shown(dom'.requestCount.groups)
                limit == Shown(dom'.requestsLimit.groups)
            IN  /\ used >= 0 /\ limit > 0 /\ pct.den > 0
                /\ 0 <= pct.num /\ pct.num <= 100 * pct.den
                /\ used >= limit => pct.num = 100 * pct.den
                /\ used < limit => pct.num = used * 100 /\ pct.den = limit ]_vars

\* C9 witness: more requests than the limit are shown and the bar is at 100%.
C9_Witness ==
    /\ IsMasked(dom.apiKeyDisplay)
    /\ Shown(dom.requestCount.groups) > Shown(dom.requestsLimit.groups)
    /\ dom.usageBarWidth.num = 100 * dom.usageBarWidth.den

\* C10: handleFileSelection answers a file of more than 10*1024*1024 bytes
\* with an error toast and nothing else (no request, no read, the selection
\* and the extract button as before); a file of at most that size becomes the
\* selected file.
C10_FileSizeGuard ==
    [][ \A file \in Files : HandleFileSelection(file) =>
            IF file.size > 10 * 1024 * 1024
              THEN /\ Len(toasts') = Len(toasts) + 1
                   /\ toasts'[Len(toasts')].type = "error"
                   /\ UNCHANGED <<inflight, reading, currentSelectedFile, dom>>
              ELSE /\ currentSelectedFile' = file
                   /\ ~dom'.extractBtnDisabled
                   /\ toasts' = toasts ]_vars

\* C10 witness: the file of exactly 10 MiB is selected and the oversized file
\* picked after it has only raised the toast.
C10_Witness ==
    /\ currentSelectedFile.size = 10 * 1024 * 1024
    /\ \E i \in 1..Len(toasts) : toasts[i].message = "File too large. Max 10MB."

---------------------------------------------------------------------------
(* C11..C20 *)

\* The toast that a step has appended to the container.
NewToast == toasts'[Len(toasts')]
ToastAdded == Len(toasts') = Len(toasts) + 1 /\ SubSeq(toasts', 1, Len(toasts)) = toasts

\* C11: with a file selected, triggerExtraction given a credential that is
\* empty after trimming, or is the masked key as the dashboard shows it, starts
\* no read and sends no request; it shows an error toast, focuses the
\* credential field and keeps the selected file.
C11_CredentialGuard ==
    [][ \A cred \in Credentials, docType \in DocTypes :
            /\ TriggerExtraction(cred, docType)
            /\ currentSelectedFile # NoFile
            /\ \/ trim(cred) = NoKey
               \/ IsMasked(dom.apiKeyDisplay) /\ trim(cred) = dom.apiKeyDisplay
            => /\ inflight' = inflight
               /\ reading' = reading
               /\ ToastAdded /\ NewToast.type = "error"
               /\ dom'.focused = "testApiKeyInput"
               /\ currentSelectedFile' = currentSelectedFile ]_vars

\* C11 witness: on a page whose dashboard shows a masked key, a file is
\* selected, the credential was refused (toast, focus) and nothing is being
\* read or sent.
C11_Witness ==
    /\ IsMasked(dom.apiKeyDisplay)
    /\ currentSelectedFile # NoFile
    /\ dom.focused = "testApiKeyInput"
    /\ \E i \in 1..Len(toasts) : toasts[i].message = "Please paste your REAL API Key."
    /\ reading = EmptyBag /\ inflight = EmptyBag

\* C12 as stated: with a file selected and a full key as credential but an
\* empty document type, triggerExtraction shows an error toast and starts no
\* read and sends no request.
C12_Claim ==
    [][ \A cred \in Credentials :
            /\ TriggerExtraction(cred, NoStr)
            /\ currentSelectedFile # NoFile
            /\ IsFull(trim(cred))
            => /\ inflight' = inflight
               /\ reading' = reading
               /\ ToastAdded /\ NewToast.type = "error" ]_vars

\* The response r is one the server accepted the extraction with (2xx).
Accepted(r) == r.kind = "http" /\ r.status >= 200 /\ r.status <= 299

\* C13 as stated: an extraction answered 2xx raises the number the usage
\* counter shows by exactly one; any other outcome leaves the counter's text.
C13_Claim ==
    [][ \A q \in BagToSet(inflight), r \in ExtractOutcomes : ExtractResolve(q, r) =>
            IF Accepted(r)
              THEN Shown(dom'.requestCount.groups) = Shown(dom.requestCount.groups) + 1
              ELSE dom'.requestCount = dom.requestCount ]_vars

\* The toast C14 expects after the failed answer r.
FailureMessages(r) ==
    IF r.kind = "http" /\ r.parsable /\ r.data.detail # NoStr
      THEN {r.data.detail}
      ELSE {"Extraction Failed", "Network Error"}

\* C14: when an extraction fails (transport error or non-2xx response), an
\* error toast with the server's detail, or a generic message when there is
\* none, is shown, the selected file stays selected and the extract button is
\* enabled.
C14_RetryAfterFailure ==
    [][ \A q \in BagToSet(inflight), r \in ExtractOutcomes :
            ExtractResolve(q, r) /\ ~Accepted(r) =>
                /\ ToastAdded /\ NewToast.type = "error"
                /\ NewToast.message \in FailureMessages(r)
                /\ currentSelectedFile' = currentSelectedFile
                /\ currentSelectedFile' # NoFile
                /\ ~dom'.extractBtnDisabled
                /\ inflight' = Settle(inflight, q) /\ reading' = reading ]_vars

\* C14 witness: an extraction was refused with a detail: its toast is up, the
\* file is still selected and the button is enabled.
C14_Witness ==
    /\ \E i \in 1..Len(toasts) : toasts[i] = [message |-> "x", type |-> "error", fading |-> FALSE]
    /\ dom.resultsArea = "{detail}"
    /\ currentSelectedFile # NoFile
    /\ ~dom.extractBtnDisabled
    /\ inflight = EmptyBag

\* The requests to an endpoint that are in flight.
Calls(bag, endpoint) ==
    BagCardinality([q \in {x \in BagToSet(bag) : x.endpoint = endpoint} |-> bag[q]])

\* The two regions of the page, and the four elements they consist of.
SignedInShown(d) ==
    /\ ~d.authenticatedSectionHidden /\ ~d.navLoggedInHidden
    /\ d.signInSectionHidden /\ d.navLoggedOutHidden
SignedOutShown(d) ==
    /\ ~d.signInSectionHidden /\ ~d.navLoggedOutHidden
    /\ d.authenticatedSectionHidden /\ d.navLoggedInHidden
Regions(d) ==
    <<d.signInSectionHidden, d.navLoggedOutHidden, d.navLoggedInHidden,
      d.authenticatedSectionHidden>>

\* C15: a signed-in notification shows the authenticated shell, hides the
\* sign-in controls and sends exactly one key fetch for that user; a signed-out
\* notification shows the sign-in controls, hides the shell and sends nothing;
\* no handler but the notification's (and the page reload of signOut) changes
\* the regions, and no other step sends a key fetch.
C15_SessionRegions ==
    [][ /\ \A user \in Users \cup {NoUser} : AuthStateChanged(user) =>
              IF user # NoUser
                THEN /\ SignedInShown(dom') /\ ~SignedOutShown(dom')
                     /\ dom'.userEmail = user
                     /\ inflight' = Issue(inflight, Request("key", user, NoStr))
                ELSE /\ SignedOutShown(dom') /\ ~SignedInShown(dom')
                     /\ inflight' = inflight
        /\ Regions(dom') # Regions(dom) =>
              SignOut \/ \E user \in Users \cup {NoUser} : AuthStateChanged(user)
        /\ Calls(inflight', "key") > Calls(inflight, "key") =>
              \E user \in Users : AuthStateChanged(user) ]_vars

\* C15 witness: after a signed-in and then a signed-out notification the
\* sign-in controls are shown, while the key fetch of the first is in flight.
C15_Witness ==
    /\ SignedOutShown(dom)
    /\ dom.userEmail \in Users
    /\ Calls(inflight, "key") = 1

\* C16: the magic-link block clears the pending sign-in address and strips
\* the callback markers from the location when, and only when, the sign-in has
\* completed; when the sign-in is rejected it shows an error toast and leaves
\* the pending address, the location, the session and the page as they were.
C16_MagicLink ==
    [][ /\ \A q \in BagToSet(inflight) :
              /\ MagicLinkResolve(q, "ok") =>
                    /\ localStorage'.emailForSignIn = NoStr
                    /\ ~isSignInWithEmailLink(location')
                    /\ toasts' = toasts
              /\ MagicLinkResolve(q, "rejected") =>
                    /\ ToastAdded /\ NewToast.type = "error"
                    /\ localStorage' = localStorage
                    /\ location' = location
                    /\ currentUser' = currentUser
                    /\ dom' = dom
        /\ localStorage'.emailForSignIn # localStorage.emailForSignIn \/ location' # location =>
              \E q \in BagToSet(inflight) : MagicLinkResolve(q, "ok") ]_vars

\* C16 witness: the link's sign-in was rejected: its toast is up, and the
\* pending address and the link's location are still there, signed out.
C16_Witness ==
    /\ location = LinkUrl
    /\ localStorage.emailForSignIn = "ann@x.io"
    /\ Pending("signInWithEmailLink") = {}
    /\ \E i \in 1..Len(toasts) : toasts[i].message = "e.message"
    /\ currentUser = NoUser

\* C18: upgradePlan's continuation leaves the page for the returned
\* checkout_url exactly when the answer is 2xx and carries one; a non-2xx answer
\* with a body leaves the location and shows an error toast with the body's
\* detail, or 'Checkout failed' when it has none; upgradePlan with no signed-in
\* user sends nothing, and with one sends one checkout request for the plan.
C18_Checkout ==
    [][ /\ \A q \in BagToSet(inflight), r \in CheckoutOutcomes : UpgradeResolve(q, r) =>
              /\ location' # location <=>
                    Accepted(r) /\ r.parsable /\ r.data.checkout_url # NoStr
              /\ location' # location => location' = r.data.checkout_url
              /\ r.kind = "http" /\ r.parsable /\ ~Accepted(r) =>
                    /\ ToastAdded /\ NewToast.type = "error"
                    /\ NewToast.message =
                          IF r.data.detail # NoStr THEN r.data.detail ELSE "Checkout failed"
        /\ \A plan \in PlanNames : UpgradePlan(plan) =>
              IF currentUser = NoUser
                THEN inflight' = inflight
                ELSE inflight' = Issue(inflight, Request("create-checkout", currentUser, plan)) ]_vars

\* C18 witness: the browser has left the app for the checkout page.
C18_Witness == location = CheckoutUrl

\* The answers the whole-page model gives, and those that are failures: a
\* transport failure or a response that is not 2xx.
PageOutcomes ==
    PageKeyOutcomes \cup PageNewKeyOutcomes \cup PageCheckoutOutcomes
        \cup PagePortalOutcomes \cup PageExtractOutcomes
Failed(r) == r.kind = "neterr" \/ ~Accepted(r)

\* The continuation of a user-initiated server call resumes with r for q.
UserCallResolve(q, r) ==
    \/ RegenerateResolve(q, r)
    \/ UpgradeResolve(q, r)
    \/ PortalResolve(q, r)
    \/ ExtractResolve(q, r)

GenericMessages ==
    {"e.message", "Checkout failed", "Error opening portal", "Extraction Failed", "Network Error"}

\* C17 as stated: when a user-initiated server call (confirmRotate, upgradePlan,
\* openPortal, performApiCall) fails, an error toast is shown, with the
\* server's detail when the answer carries one and a generic message
\* otherwise, and the displayed key, the usage display and the stored key are
\* as before.
C17_Claim ==
    [][ \A q \in BagToSet(inflight), r \in PageOutcomes :
            UserCallResolve(q, r) /\ Failed(r) =>
                /\ ToastAdded /\ NewToast.type = "error"
                /\ NewToast.message \in
                      IF r.kind = "http" /\ r.parsable /\ r.data.detail # NoStr
                        THEN {r.data.detail} ELSE GenericMessages
                /\ dom'.apiKeyDisplay = dom.apiKeyDisplay
                /\ dom'.requestCount = dom.requestCount
                /\ dom'.requestsLimit = dom.requestsLimit
                /\ dom'.usageBarWidth = dom.usageBarWidth
                /\ localStorage' = localStorage ]_vars

Endpoints ==
    {"key", "signup", "regenerate-key", "create-checkout", "create-portal", "extract"}

\* The notification or user action that sends the requests of an endpoint; the
\* signup is sent by the key fetch's not-found continuation, the extract
\* request by the file read that triggerExtraction started.
Sends(endpoint) ==
    CASE endpoint = "key" -> \E user \in Users : AuthStateChanged(user)
      [] endpoint = "signup" ->
            \E q \in Pending("key") : KeyFetchResolve(q, Http(404, ErrorBody))
      [] endpoint = "regenerate-key" -> ConfirmRotate
      [] endpoint = "create-checkout" -> \E plan \in PlanNames : UpgradePlan(plan)
      [] endpoint = "create-portal" -> OpenPortal
      [] endpoint = "extract" -> \E rd \in Reading("extract") : ExtractReadLoaded(rd)

\* Some continuation resumes with the answer r to the request q.
AnyResolve(q, r) ==
    \/ KeyFetchResolve(q, r)
    \/ SignupResolve(q, r)
    \/ UserCallResolve(q, r)

\* C19: no step sends more than one request to an endpoint; a request to an
\* endpoint is sent only by the notification or user action it belongs to; a
\* file read for an extraction is started only by triggerExtraction; and a
\* continuation that resumes with a failure sends nothing and starts no read
\* (the not-found key fetch sends its one signup).
C19_NoRetry ==
    [][ /\ \A e \in Endpoints :
              /\ Calls(inflight', e) <= Calls(inflight, e) + 1
              /\ Calls(inflight', e) > Calls(inflight, e) => Sends(e)
        /\ BagCardinality(reading') > BagCardinality(reading) =>
              /\ BagCardinality(reading') = BagCardinality(reading) + 1
              /\ HandleFileSelection(PageFile) \/ TriggerExtraction(PageCredential, "receipt")
        /\ \A q \in BagToSet(inflight), r \in PageOutcomes :
              AnyResolve(q, r) /\ Failed(r) =>
                  /\ reading' = reading
                  /\ inflight' =
                        IF q.endpoint = "key" /\ r.kind = "http" /\ r.status = 404
                          THEN Issue(Settle(inflight, q), Request("signup", q.email, "free"))
                          ELSE Settle(inflight, q) ]_vars

\* C19 witness: a checkout, a rotation or an extraction has failed, its toast
\* is up, and nothing is in flight or being read.
C19_Witness ==
    /\ \E i \in 1..Len(toasts) :
          toasts[i].message \in {"Checkout failed", "Extraction Failed", "Error opening portal"}
    /\ inflight = EmptyBag
    /\ reading = EmptyBag

\* The requests whose continuation reveals a new key.
PendingNewKey == Pending("regenerate-key") \cup Pending("signup")

\* C20: while a key fetch and a rotation or creation are both in flight, the
\* one that resolves writes its value to the key display (the full key of the
\* rotation or creation, the masked key of the fetch, whatever the display
\* held) and leaves the other in flight, so that the display ends with the
\* value of the one that resolves last.
C20_LastResolvedWins ==
    [][ Pending("key") # {} /\ PendingNewKey # {} =>
          /\ \A k \in FullKeys : RevealStep(k) =>
                /\ dom'.apiKeyDisplay = k
                /\ \A x \in Pending("key") : CopiesIn(x, inflight') = CopiesIn(x, inflight)
          /\ \A b \in KeyBodies : KeyLoadStep(b) =>
                /\ dom'.apiKeyDisplay = b.masked_key
                /\ \A x \in PendingNewKey : CopiesIn(x, inflight') = CopiesIn(x, inflight) ]_vars

\* C20 witness: a rotation has resolved (its toast is still up, its key is
\* stored) and a key fetch that resolved after it has put the masked key over
\* the full key in the display.
C20_Witness ==
    /\ \E i \in 1..Len(toasts) : toasts[i].message = "Key Rotated Successfully"
    /\ IsMasked(dom.apiKeyDisplay)
    /\ IsFull(localStorage.receiptApiKey)
    /\ inflight = EmptyBag

---------------------------------------------------------------------------
(* C21..C26 *)

C22_BarColour == dom.usageBarRed <=> Above90(dom.usageBarWidth)

\* C23: the mime_type of every extract request is the type of the file whose
\* contents the request carries.
C23_MimeOfSentFile ==
    \A q \in Pending("extract") :
        \A f \in Files : q.file_data = f.name => q.mime_type = f.type

\* The submissions triggerExtraction has accepted and whose request has not
\* resolved: those whose file is being read and those whose request is out.
ExtractionsInProgress ==
    BagCardinality([rd \in Reading("extract") |-> reading[rd]])
        + Calls(inflight, "extract")

\* C24: at most one extraction is in progress, and while one is, the extract
\* button is disabled and the processing indicator is visible.
C24_OneExtraction ==
    /\ ExtractionsInProgress <= 1
    /\ ExtractionsInProgress = 1 =>
          dom.extractBtnDisabled /\ ~dom.processingIndicatorHidden

\* C25: whenever the session is signed out, local storage holds no full API
\* key.
C25_NoKeyWhenSignedOut ==
    currentUser = NoUser => ~IsFull(localStorage.receiptApiKey)

\* C26: when signInWithEmail has had a link sent, the address it was sent to
\* is in local storage; the page loaded at the link takes the address of its
\* sign-in from local storage, not from a prompt; and a completed sign-in
\* clears the stored address.
C26_PendingEmail ==
    [][ /\ \A q \in BagToSet(inflight) :
              /\ SendLinkResolve(q, "sent") => localStorage'.emailForSignIn = q.email
              /\ MagicLinkResolve(q, "ok") => localStorage'.emailForSignIn = NoStr
        /\ OpenLink =>
              /\ TruthyStr(localStorage.emailForSignIn)
              /\ \A q \in BagToSet(inflight') : q.email = localStorage.emailForSignIn ]_vars

============================================================================
